---- MODULE Spec2Model ----
(***************************************************************************)
(* Model of the concurrent map of src/159-GoSync/09-Map/sync/map.go        *)
(* (package sync: Map, readOnly, entry).                                   *)
(*                                                                         *)
(* Goroutines are the threads of Threads.  Every atomic access to m.read   *)
(* and to an entry's pointer p, every acquisition and release of m.mu, is  *)
(* a step of its own; accesses to m.dirty and m.misses, which only the     *)
(* holder of m.mu performs, are folded into the neighbouring step.         *)
(*                                                                         *)
(* An entry pointer p is modelled by what it points to: nilP (nil),        *)
(* expunged (the sentinel of line 30) or the stored value.  A *entry is an *)
(* index into the heap p; NoEntry is the nil *entry.  A Go map is a        *)
(* function on Keys whose absent keys map to NoEntry.                      *)
(***************************************************************************)
EXTENDS Integers, FiniteSets, Sequences, TLC

NumThreads == 2
NumKeys == 3
NumCallKeys == 2
NumVals == 2
MaxOps == 4
MaxOpsRep == 2
MaxOpsLive == 2
NumLockers == 3
MaxLocks == 2
NumAthletes == 4

Threads == 1..NumThreads
Keys == 1..NumKeys
\* the keys the callers of Spec and SpecRep pass; SpecLive passes every key
CallKeys == 1..NumCallKeys
Vals == 1..NumVals

nilP == 0
expunged == 0 - 1
NoEntry == 0
MaxEntries == NumKeys + MaxOps
EntryIds == 1..MaxEntries
NoThread == 0

\* history values of a key: no value stored, or not determined (writes overlapped)
Absent == nilP
Unknown == 0 - 2

VARIABLES
  read,      \* m.read: the published readOnly {m, amended}
  dirty,     \* m.dirty: [isNil, m]
  misses,    \* m.misses
  mu,        \* m.mu: the thread holding it, or NoThread
  p,         \* entry.p of every entry of the heap
  nEntries,  \* entries allocated by newEntry so far
  pc, op, key, value,   \* per thread: position, operation and its arguments
  rd,        \* per thread: the local variable read
  e, ok,     \* per thread: the local variables e and ok
  lp,        \* per thread: the local variable p of tryStore / tryExpungeLocked
  todo,      \* per thread: keys the range loop of dirtyLocked has not visited
  rk,        \* per thread: the key k of the current iteration of that loop
  ret,       \* per thread: the returned pair <<value, ok>>
  opsLeft,   \* operations that may still be invoked
  settled, clean, expect, everStored, usedLock   \* history (see Invoke, Return)

shared == <<read, dirty, misses, p>>
locals == <<rd, e, ok, lp, todo, rk, ret>>
args == <<op, key, value>>
hist == <<opsLeft, settled, clean, expect, everStored>>

VARIABLES    \* the Mutex of package mutex1 (map.go lines 205-244)
  mkey,      \* Mutex.key
  sema,      \* Mutex.sema: the count of the semaphore
  mpc,       \* per goroutine: position in Lock / Unlock
  mv,        \* per goroutine: the local variable v of xadd
  locksLeft  \* per goroutine: calls of Lock it may still make

VARIABLES    \* the rendezvous of src/unnamed/part_001
  ready,     \* var ready int
  cl,        \* c.L: the goroutine holding it, or NoThread
  apc,       \* per athlete goroutine: position
  rpc,       \* position of main (the referee)
  nwait,     \* c.notify.wait: tickets handed out by Wait
  nnotify,   \* c.notify.notify: tickets below this one have been notified
  ticket     \* the referee's ticket of its current Wait

mvars == <<mkey, sema, mpc, mv, locksLeft>>
cvars == <<ready, cl, apc, rpc, nwait, nnotify, ticket>>
other == <<mvars, cvars>>
mapvars == <<read, dirty, misses, mu, p, nEntries, pc, op, key, value, rd, e, ok,
             lp, todo, rk, ret, opsLeft, settled, clean, expect, everStored, usedLock>>
vars == <<mapvars, mvars, cvars>>

Lockers == 1..NumLockers
Athletes == 1..NumAthletes
Referee == NumAthletes + 1

\* var m Mutex: the zero Mutex, nobody in Lock or Unlock
MutexInit ==
  /\ mkey = 0
  /\ sema = 0
  /\ mpc = [t \in Lockers |-> "out"]
  /\ mv = [t \in Lockers |-> 0]
  /\ locksLeft = [t \in Lockers |-> MaxLocks]

\* main after the loop that starts the athletes, before c.L.Lock()   (lines 23-41)
RaceInit ==
  /\ ready = 0
  /\ cl = NoThread
  /\ apc = [i \in Athletes |-> "a_lock"]
  /\ rpc = "r_lock"
  /\ nwait = 0
  /\ nnotify = 0
  /\ ticket = 0

EmptyMap == [k \in Keys |-> NoEntry]
KeysOf(m) == {k \in Keys : m[k] # NoEntry}
len(m) == Cardinality(KeysOf(m))
NilDirty == [isNil |-> TRUE, m |-> EmptyMap]
NoRet == <<nilP, FALSE>>

\* entry.load on pointer q
entryLoad(q) == IF q = nilP \/ q = expunged THEN <<nilP, FALSE>> ELSE <<q, TRUE>>

\* a Go map index expression m[k]: the pair <<e, ok>>
Lookup(m, k) == <<m[k], m[k] # NoEntry>>

\* mutants of NeedDirty: the dirty map is never consulted; every miss takes the lock
NeedDirtyNever(okv, amended) == FALSE

NeedDirtyOnMiss(okv, amended) == ~okv

\* the test of lines 41, 46, 92 and 97: fall back to the dirty map
NeedDirty(okv, amended) == ~okv /\ amended

Set(f, t, x) == [f EXCEPT ![t] = x]

IsWrite(o) == o # "Load"
InFlight(u) == pc[u] # "idle"
Writers(k) == {u \in Threads : InFlight(u) /\ IsWrite(op[u]) /\ key[u] = k}

NoRead == [m |-> EmptyMap, amended |-> FALSE]

InitLocals ==
  /\ pc = [t \in Threads |-> "idle"]
  /\ op = [t \in Threads |-> "none"]
  /\ key = [t \in Threads |-> 1]
  /\ value = [t \in Threads |-> nilP]
  /\ rd = [t \in Threads |-> NoRead]
  /\ e = [t \in Threads |-> NoEntry]
  /\ ok = [t \in Threads |-> FALSE]
  /\ lp = [t \in Threads |-> nilP]
  /\ todo = [t \in Threads |-> {}]
  /\ rk = [t \in Threads |-> 1]
  /\ ret = [t \in Threads |-> NoRet]
  /\ clean = [t \in Threads |-> FALSE]
  /\ expect = [t \in Threads |-> Unknown]
  /\ usedLock = [t \in Threads |-> FALSE]

\* the zero Map: var m Map
Init ==
  /\ read = NoRead
  /\ dirty = NilDirty
  /\ misses = 0
  /\ mu = NoThread
  /\ p = [i \in EntryIds |-> nilP]
  /\ nEntries = 0
  /\ InitLocals
  /\ opsLeft = MaxOps
  /\ settled = [k \in Keys |-> Absent]
  /\ everStored = [k \in Keys |-> FALSE]
  /\ MutexInit
  /\ RaceInit

StartPc(o) == CASE o = "Load" -> "load_read"
                [] o = "Store" -> "store_read"
                [] OTHER -> "lad_read"

\* a goroutine calls Load(k), Store(k, v), LoadAndDelete(k) or Delete(k)
Invoke(t, o, k, v) ==
  /\ pc[t] = "idle"
  /\ opsLeft > 0
  /\ opsLeft' = opsLeft - 1
  /\ pc' = Set(pc, t, StartPc(o))
  /\ op' = Set(op, t, o)
  /\ key' = Set(key, t, k)
  /\ value' = Set(value, t, v)
  /\ settled' = IF IsWrite(o) THEN Set(settled, k, Unknown) ELSE settled
  /\ expect' = [u \in Threads |->
                  IF u = t THEN settled[k]
                  ELSE IF IsWrite(o) /\ InFlight(u) /\ key[u] = k THEN Unknown
                  ELSE expect[u]]
  /\ clean' = [u \in Threads |->
                  IF u = t THEN IsWrite(o) /\ Writers(k) = {}
                  ELSE IF IsWrite(o) /\ key[u] = k THEN FALSE
                  ELSE clean[u]]
  /\ everStored' = IF o = "Store" THEN Set(everStored, k, TRUE) ELSE everStored
  /\ usedLock' = Set(usedLock, t, FALSE)
  /\ UNCHANGED <<shared, mu, nEntries, locals>>
  /\ UNCHANGED other

Call(t) ==
  \/ \E k \in CallKeys : Invoke(t, "Load", k, nilP)
  \/ \E k \in CallKeys, v \in Vals : Invoke(t, "Store", k, v)
  \/ \E k \in CallKeys : Invoke(t, "LoadAndDelete", k, nilP)
  \/ \E k \in CallKeys : Invoke(t, "Delete", k, nilP)

\* the operation has returned to its caller (or its panic was recovered there);
\* Delete drops the pair LoadAndDelete returned
Return(t) ==
  /\ pc[t] \in {"done", "panicked"}
  /\ pc' = Set(pc, t, "idle")
  /\ settled' = IF IsWrite(op[t]) /\ clean[t]
                  THEN Set(settled, key[t],
                           IF pc[t] = "panicked" THEN Unknown
                           ELSE IF op[t] = "Store" THEN value[t] ELSE Absent)
                  ELSE settled
  /\ clean' = Set(clean, t, FALSE)
  /\ expect' = Set(expect, t, Unknown)
  /\ usedLock' = Set(usedLock, t, FALSE)
  /\ op' = Set(op, t, "none")
  /\ key' = Set(key, t, 1)
  /\ value' = Set(value, t, nilP)
  /\ rd' = Set(rd, t, NoRead)
  /\ e' = Set(e, t, NoEntry)
  /\ ok' = Set(ok, t, FALSE)
  /\ lp' = Set(lp, t, nilP)
  /\ todo' = Set(todo, t, {})
  /\ rk' = Set(rk, t, 1)
  /\ ret' = Set(ret, t, NoRet)
  /\ UNCHANGED <<shared, mu, nEntries, opsLeft, everStored>>
  /\ UNCHANGED other

\* read, _ := m.read.Load().(readOnly); e, ok := read.m[key]   (lines 39-41, 90-92)
ReadFirst(t, slow, fast) ==
  /\ rd' = Set(rd, t, read)
  /\ e' = Set(e, t, Lookup(read.m, key[t])[1])
  /\ ok' = Set(ok, t, Lookup(read.m, key[t])[2])
  /\ pc' = Set(pc, t, IF NeedDirty(Lookup(read.m, key[t])[2], read.amended)
                        THEN slow ELSE fast)
  /\ UNCHANGED <<shared, mu, nEntries, args, lp, todo, rk, ret, hist, usedLock>>

LoadRead(t) ==
  /\ pc[t] = "load_read"
  /\ ReadFirst(t, "load_lock", "load_ret")
  /\ UNCHANGED other

\* m.mu.Lock()   (lines 42, 67, 93)
\* mutant of Lock: the lock is taken without waiting for its holder
LockNoWait(t) ==
  /\ pc[t] \in {"load_lock", "store_lock", "lad_lock"}
  /\ mu' = t
  /\ pc' = Set(pc, t, CASE pc[t] = "load_lock" -> "load_locked"
                        [] pc[t] = "store_lock" -> "store_locked"
                        [] OTHER -> "lad_locked")
  /\ usedLock' = Set(usedLock, t, TRUE)
  /\ UNCHANGED <<shared, nEntries, args, locals, hist>>
  /\ UNCHANGED other

Lock(t) ==
  /\ pc[t] \in {"load_lock", "store_lock", "lad_lock"}
  /\ mu = NoThread
  /\ mu' = t
  /\ pc' = Set(pc, t, CASE pc[t] = "load_lock" -> "load_locked"
                        [] pc[t] = "store_lock" -> "store_locked"
                        [] OTHER -> "lad_locked")
  /\ usedLock' = Set(usedLock, t, TRUE)
  /\ UNCHANGED <<shared, nEntries, args, locals, hist>>
  /\ UNCHANGED other

\* the double check of Load under the lock   (lines 44-48)
LoadLocked(t) ==
  /\ pc[t] = "load_locked"
  /\ rd' = Set(rd, t, read)
  /\ IF NeedDirty(Lookup(read.m, key[t])[2], read.amended)
       THEN /\ e' = Set(e, t, Lookup(dirty.m, key[t])[1])
            /\ ok' = Set(ok, t, Lookup(dirty.m, key[t])[2])
            /\ pc' = Set(pc, t, "miss_inc")
       ELSE /\ e' = Set(e, t, Lookup(read.m, key[t])[1])
            /\ ok' = Set(ok, t, Lookup(read.m, key[t])[2])
            /\ pc' = Set(pc, t, "unlock")
  /\ UNCHANGED <<shared, mu, nEntries, args, lp, todo, rk, ret, hist, usedLock>>
  /\ UNCHANGED other

\* missLocked: m.misses++   (line 129)
MissInc(t) ==
  /\ pc[t] = "miss_inc"
  /\ misses' = misses + 1
  /\ pc' = Set(pc, t, "miss_check")
  /\ UNCHANGED <<read, dirty, p, mu, nEntries, args, locals, hist, usedLock>>
  /\ UNCHANGED other

\* mutant of BelowThreshold: <= for <
BelowThresholdOffByOne(n, d) == n <= len(d.m)

\* missLocked: if m.misses < len(m.dirty) { return }   (line 130)
BelowThreshold(n, d) == n < len(d.m)

\* mutant of Promoted: m.dirty is cleared before it is published
PromotedAfterClear(d) == [m |-> EmptyMap, amended |-> FALSE]

\* mutant of Promoted: the promoted snapshot is still marked amended
PromotedStillAmended(d) == [m |-> d.m, amended |-> TRUE]

\* missLocked: readOnly{m: m.dirty}   (line 134)
Promoted(d) == [m |-> d.m, amended |-> FALSE]

\* missLocked: the threshold test and the promotion   (lines 130-136)
MissCheck(t) ==
  /\ pc[t] = "miss_check"
  /\ IF BelowThreshold(misses, dirty)
       THEN UNCHANGED <<read, dirty, misses>>
       ELSE /\ read' = Promoted(dirty)
            /\ dirty' = NilDirty
            /\ misses' = 0
  /\ pc' = Set(pc, t, "unlock")
  /\ UNCHANGED <<p, mu, nEntries, args, locals, hist, usedLock>>
  /\ UNCHANGED other

\* m.mu.Unlock()   (lines 51, 86, 104)
Unlock(t) ==
  /\ pc[t] = "unlock"
  /\ mu' = NoThread
  /\ pc' = Set(pc, t, CASE op[t] = "Load" -> "load_ret"
                        [] op[t] = "Store" -> "done"
                        [] OTHER -> "lad_ret")
  /\ UNCHANGED <<shared, nEntries, args, locals, hist, usedLock>>
  /\ UNCHANGED other

\* mutant of LoadReturnsEarly: the test inverted
LoadReturnsEarlyInverted(okv) == okv

\* Load: if !ok { return nil, false }   (line 53)
LoadReturnsEarly(okv) == ~okv

\* the end of Load   (lines 53-56, 153-159); e.load() on the nil *entry would
\* dereference nil and panic
LoadRet(t) ==
  /\ pc[t] = "load_ret"
  /\ IF LoadReturnsEarly(ok[t])
       THEN /\ ret' = Set(ret, t, <<nilP, FALSE>>)
            /\ pc' = Set(pc, t, "done")
       ELSE IF e[t] = NoEntry
              THEN /\ ret' = ret
                   /\ pc' = Set(pc, t, "panicked")
              ELSE /\ ret' = Set(ret, t, entryLoad(p[e[t]]))
                   /\ pc' = Set(pc, t, "done")
  /\ UNCHANGED <<shared, mu, nEntries, args, rd, e, ok, lp, todo, rk, hist, usedLock>>
  /\ UNCHANGED other

Panic(t) == pc' = Set(pc, t, "panicked")

\* Store: the lock-free look-up   (lines 61-63)
StoreRead(t) ==
  /\ pc[t] = "store_read"
  /\ rd' = Set(rd, t, read)
  /\ e' = Set(e, t, Lookup(read.m, key[t])[1])
  /\ ok' = Set(ok, t, Lookup(read.m, key[t])[2])
  /\ pc' = Set(pc, t, IF Lookup(read.m, key[t])[2] THEN "ts_load" ELSE "store_lock")
  /\ UNCHANGED <<shared, mu, nEntries, args, lp, todo, rk, ret, hist, usedLock>>
  /\ UNCHANGED other

\* tryStore: p := atomic.LoadPointer(&e.p); if p == expunged { return false }
\* (lines 166-169)
TryStoreLoad(t) ==
  /\ pc[t] = "ts_load"
  /\ lp' = Set(lp, t, p[e[t]])
  /\ pc' = Set(pc, t, IF p[e[t]] = expunged THEN "store_lock" ELSE "ts_cas")
  /\ UNCHANGED <<shared, mu, nEntries, args, rd, e, ok, todo, rk, ret, hist, usedLock>>
  /\ UNCHANGED other

\* tryStore: atomic.CompareAndSwapPointer(&e.p, p, unsafe.Pointer(i))   (lines 170-172)
\* Two pointers to equal values compare equal here; the swap then has the effect
\* the retry of the loop would have.
TryStoreCas(t) ==
  /\ pc[t] = "ts_cas"
  /\ IF p[e[t]] = lp[t]
       THEN /\ p' = Set(p, e[t], value[t])
            /\ pc' = Set(pc, t, "done")
       ELSE /\ p' = p
            /\ pc' = Set(pc, t, "ts_load")
  /\ UNCHANGED <<read, dirty, misses, mu, nEntries, args, locals, hist, usedLock>>
  /\ UNCHANGED other

\* Store under the lock: which of the three branches is taken   (lines 68-69, 75, 77-78)
\* mutant of StoreBranch: the snapshot is not looked up again under the lock
StoreBranchNoRead(rdv, dv, k) ==
  IF Lookup(dv.m, k)[2] THEN "store_set"
  ELSE IF ~rdv.amended THEN "dirty_locked"
  ELSE "store_new"

StoreBranch(rdv, dv, k) ==
  IF Lookup(rdv.m, k)[2] THEN "store_unexpunge"
  ELSE IF Lookup(dv.m, k)[2] THEN "store_set"
  ELSE IF ~rdv.amended THEN "dirty_locked"
  ELSE "store_new"

StoreLocked(t) ==
  /\ pc[t] = "store_locked"
  /\ rd' = Set(rd, t, read)
  /\ e' = Set(e, t, IF Lookup(read.m, key[t])[2] THEN Lookup(read.m, key[t])[1]
                     ELSE Lookup(dirty.m, key[t])[1])
  /\ ok' = Set(ok, t, e'[t] # NoEntry)
  /\ pc' = Set(pc, t, StoreBranch(read, dirty, key[t]))
  /\ UNCHANGED <<shared, mu, nEntries, args, lp, todo, rk, ret, hist, usedLock>>
  /\ UNCHANGED other

\* mutant of unexpungeLocked: the swap is done but reported as not done
unexpungeUnreported(q) == IF q = expunged THEN <<nilP, FALSE>> ELSE <<q, FALSE>>

\* unexpungeLocked: atomic.CompareAndSwapPointer(&e.p, expunged, nil)   (lines 179-181)
unexpungeLocked(q) == IF q = expunged THEN <<nilP, TRUE>> ELSE <<q, FALSE>>

\* m.dirty[k] = x; assignment to an entry of a nil map panics
MapAssign(d, k, x) == [isNil |-> FALSE, m |-> [d.m EXCEPT ![k] = x]]

\* if e.unexpungeLocked() { m.dirty[key] = e }   (lines 70-73)
StoreUnexpunge(t) ==
  /\ pc[t] = "store_unexpunge"
  /\ p' = Set(p, e[t], unexpungeLocked(p[e[t]])[1])
  /\ IF unexpungeLocked(p[e[t]])[2]
       THEN IF dirty.isNil
              THEN Panic(t) /\ dirty' = dirty
              ELSE /\ dirty' = MapAssign(dirty, key[t], e[t])
                   /\ pc' = Set(pc, t, "store_set")
       ELSE /\ dirty' = dirty
            /\ pc' = Set(pc, t, "store_set")
  /\ UNCHANGED <<read, misses, mu, nEntries, args, locals, hist, usedLock>>
  /\ UNCHANGED other

\* e.storeLocked(&value)   (lines 74, 76, 186-188)
StoreSet(t) ==
  /\ pc[t] = "store_set"
  /\ p' = Set(p, e[t], value[t])
  /\ pc' = Set(pc, t, "unlock")
  /\ UNCHANGED <<read, dirty, misses, mu, nEntries, args, locals, hist, usedLock>>
  /\ UNCHANGED other

\* dirtyLocked up to the range loop   (lines 140-146)
DirtyLocked(t) ==
  /\ pc[t] = "dirty_locked"
  /\ IF ~dirty.isNil
       THEN /\ pc' = Set(pc, t, "store_publish")
            /\ UNCHANGED <<dirty, rd, todo>>
       ELSE /\ rd' = Set(rd, t, read)
            /\ dirty' = [isNil |-> FALSE, m |-> EmptyMap]
            /\ todo' = Set(todo, t, KeysOf(read.m))
            /\ pc' = Set(pc, t, "dirty_range")
  /\ UNCHANGED <<read, misses, p, mu, nEntries, args, e, ok, lp, rk, ret, hist, usedLock>>
  /\ UNCHANGED other

\* mutant of CopyIfLive: the rebuild copies nothing
CopyNever(d, k, x, q) == d

\* tryExpungeLocked returns p == expunged; the pair is copied when it is false
\* (lines 147-149, 198)
CopyIfLive(d, k, x, q) == IF q = expunged THEN d ELSE MapAssign(d, k, x)

\* for k, e := range read.m, and the first load of tryExpungeLocked   (lines 146, 191-192)
RangeNext(t) ==
  IF todo[t] = {}
    THEN /\ pc' = Set(pc, t, "store_publish")
         /\ UNCHANGED <<dirty, p, e, lp, todo, rk>>
    ELSE \E k \in todo[t] :
           /\ todo' = Set(todo, t, todo[t] \ {k})
           /\ rk' = Set(rk, t, k)
           /\ e' = Set(e, t, rd[t].m[k])
           /\ lp' = Set(lp, t, p[rd[t].m[k]])
           /\ p' = p
           /\ IF p[rd[t].m[k]] = nilP
                THEN /\ pc' = Set(pc, t, "te_cas")
                     /\ dirty' = dirty
                ELSE /\ pc' = Set(pc, t, "dirty_range")
                     /\ dirty' = CopyIfLive(dirty, k, rd[t].m[k], p[rd[t].m[k]])

\* mutant of tryExpungeCas: a plain store of expunged, no comparison with nil
tryExpungeCasBlind(q) == <<expunged, TRUE>>

\* mutant of tryExpungeCas: reports the entry expunged without marking it
tryExpungeCasUnmarked(q) == IF q = nilP THEN <<nilP, TRUE>> ELSE <<q, FALSE>>

\* atomic.CompareAndSwapPointer(&e.p, nil, expunged): the pointer left and
\* whether it was swapped   (line 193)
tryExpungeCas(q) == IF q = nilP THEN <<expunged, TRUE>> ELSE <<q, FALSE>>

\* tryExpungeLocked: the swap; return true when it succeeded   (lines 193-195)
TeCas(t) ==
  /\ p' = Set(p, e[t], tryExpungeCas(p[e[t]])[1])
  /\ pc' = Set(pc, t, IF tryExpungeCas(p[e[t]])[2] THEN "dirty_range" ELSE "te_reload")
  /\ UNCHANGED <<dirty, e, lp, todo, rk>>

\* tryExpungeLocked: p = atomic.LoadPointer(&e.p), then the loop test   (lines 196, 192, 198)
TeReload(t) ==
  /\ lp' = Set(lp, t, p[e[t]])
  /\ IF p[e[t]] = nilP
       THEN /\ pc' = Set(pc, t, "te_cas")
            /\ dirty' = dirty
       ELSE /\ pc' = Set(pc, t, "dirty_range")
            /\ dirty' = CopyIfLive(dirty, rk[t], e[t], p[e[t]])
  /\ UNCHANGED <<p, e, todo, rk>>

\* one step of the range loop of dirtyLocked   (lines 146-150, 190-199)
DirtyRange(t) ==
  /\ pc[t] \in {"dirty_range", "te_cas", "te_reload"}
  /\ CASE pc[t] = "dirty_range" -> RangeNext(t)
       [] pc[t] = "te_cas" -> TeCas(t)
       [] OTHER -> TeReload(t)
  /\ UNCHANGED <<read, misses, mu, nEntries, args, rd, ok, ret, hist, usedLock>>
  /\ UNCHANGED other

\* m.read.Store(readOnly{m: read.m, amended: true})   (line 82)
\* mutant of StorePublish: the snapshot is not marked amended
StorePublishSkipped(t) ==
  /\ pc[t] = "store_publish"
  /\ pc' = Set(pc, t, "store_new")
  /\ UNCHANGED <<read, dirty, misses, p, mu, nEntries, args, locals, hist, usedLock>>
  /\ UNCHANGED other

StorePublish(t) ==
  /\ pc[t] = "store_publish"
  /\ read' = [m |-> rd[t].m, amended |-> TRUE]
  /\ pc' = Set(pc, t, "store_new")
  /\ UNCHANGED <<dirty, misses, p, mu, nEntries, args, locals, hist, usedLock>>
  /\ UNCHANGED other

\* m.dirty[key] = newEntry(value)   (lines 84, 201-203)
StoreNew(t) ==
  /\ pc[t] = "store_new"
  /\ IF dirty.isNil
       THEN Panic(t) /\ UNCHANGED <<dirty, p, nEntries>>
       ELSE /\ nEntries' = nEntries + 1
            /\ p' = Set(p, nEntries + 1, value[t])
            /\ dirty' = MapAssign(dirty, key[t], nEntries + 1)
            /\ pc' = Set(pc, t, "unlock")
  /\ UNCHANGED <<read, misses, mu, args, locals, hist, usedLock>>
  /\ UNCHANGED other

\* LoadAndDelete: the lock-free look-up   (lines 90-92)
LadRead(t) ==
  /\ pc[t] = "lad_read"
  /\ ReadFirst(t, "lad_lock", "lad_ret")
  /\ UNCHANGED other

\* mutant of MapDelete: the key is left in the map
MapDeleteForgotten(d, k) == d

\* delete(m, k) of a Go map (no effect on a nil map)
MapDelete(d, k) == [d EXCEPT !.m[k] = NoEntry]

\* LoadAndDelete: the double check under the lock   (lines 95-100)
LadLocked(t) ==
  /\ pc[t] = "lad_locked"
  /\ rd' = Set(rd, t, read)
  /\ IF NeedDirty(Lookup(read.m, key[t])[2], read.amended)
       THEN /\ e' = Set(e, t, Lookup(dirty.m, key[t])[1])
            /\ ok' = Set(ok, t, Lookup(dirty.m, key[t])[2])
            /\ dirty' = MapDelete(dirty, key[t])
            /\ pc' = Set(pc, t, "miss_inc")
       ELSE /\ e' = Set(e, t, Lookup(read.m, key[t])[1])
            /\ ok' = Set(ok, t, Lookup(read.m, key[t])[2])
            /\ dirty' = dirty
            /\ pc' = Set(pc, t, "unlock")
  /\ UNCHANGED <<read, misses, p, mu, nEntries, args, lp, todo, rk, ret, hist, usedLock>>
  /\ UNCHANGED other

\* LoadAndDelete: if !ok { return e.delete() }; return nil, false   (line 106)
CallsDelete(okv) == ~okv

\* entry.delete: the pointer left and the pair returned   (lines 116-126)
entryDelete(q) == IF q = nilP \/ q = expunged THEN <<q, <<nilP, FALSE>>>>
                  ELSE <<nilP, <<q, TRUE>>>>

\* the end of LoadAndDelete   (lines 106-109, 116-126); e.delete() on the nil
\* *entry dereferences nil and panics
LadRet(t) ==
  /\ pc[t] = "lad_ret"
  /\ IF CallsDelete(ok[t])
       THEN IF e[t] = NoEntry
              THEN Panic(t) /\ UNCHANGED <<p, ret>>
              ELSE /\ p' = Set(p, e[t], entryDelete(p[e[t]])[1])
                   /\ ret' = Set(ret, t, entryDelete(p[e[t]])[2])
                   /\ pc' = Set(pc, t, "done")
       ELSE /\ ret' = Set(ret, t, <<nilP, FALSE>>)
            /\ p' = p
            /\ pc' = Set(pc, t, "done")
  /\ UNCHANGED <<read, dirty, misses, mu, nEntries, args, rd, e, ok, lp, todo, rk, hist, usedLock>>
  /\ UNCHANGED other

Step(t) ==
  \/ Call(t)
  \/ Return(t)
  \/ LoadRead(t)
  \/ Lock(t)
  \/ LoadLocked(t)
  \/ MissInc(t)
  \/ MissCheck(t)
  \/ Unlock(t)
  \/ LoadRet(t)
  \/ StoreRead(t)
  \/ TryStoreLoad(t)
  \/ TryStoreCas(t)
  \/ StoreLocked(t)
  \/ StoreUnexpunge(t)
  \/ StoreSet(t)
  \/ DirtyLocked(t)
  \/ DirtyRange(t)
  \/ StorePublish(t)
  \/ StoreNew(t)
  \/ LadRead(t)
  \/ LadLocked(t)
  \/ LadRet(t)

Next == \E t \in Threads : Step(t)

Spec == Init /\ [][Next]_vars

\* what Load(k) finds in the map as it stands: the read snapshot first, the
\* dirty map when the snapshot is amended   (lines 39-56, without the miss)
Content(k) ==
  IF Lookup(read.m, k)[2] THEN entryLoad(p[read.m[k]])
  ELSE IF read.amended /\ Lookup(dirty.m, k)[2] THEN entryLoad(p[dirty.m[k]])
  ELSE <<nilP, FALSE>>

\* One key of a Map at rest, as the fields' comments describe it (lines 11-20,
\* 25, 28-29): an entry of read is in dirty too unless it is expunged, an entry
\* of dirty alone is a new key, expunged entries exist only beside a dirty map.
RepKey(s, dn) ==
  /\ (~s.inRead /\ ~s.inDirty) => s.q = nilP
  /\ (s.inRead /\ s.inDirty) => s.q # expunged
  /\ (s.inRead /\ ~s.inDirty) => IF dn THEN s.q # expunged ELSE s.q = expunged
  /\ (~s.inRead /\ s.inDirty) => s.q \in Vals
  /\ dn => ~s.inDirty

RepStates(dn) ==
  {f \in [Keys -> [inRead : BOOLEAN, inDirty : BOOLEAN, q : {nilP, expunged} \cup Vals]] :
     \A k \in Keys : RepKey(f[k], dn)}

\* the Map at rest described by f, dn (dirty is nil) and n (misses), entries
\* numbered in key order, with no call under way and calls more calls to come
AtRest(f, dn, n, calls) ==
  LET hasE(k) == f[k].inRead \/ f[k].inDirty
      id(k) == Cardinality({j \in Keys : j <= k /\ hasE(j)})
      dm == [k \in Keys |-> IF f[k].inDirty THEN id(k) ELSE NoEntry]
  IN /\ IF dn THEN n = 0 ELSE n < len(dm)
     /\ read = [m |-> [k \in Keys |-> IF f[k].inRead THEN id(k) ELSE NoEntry],
                amended |-> ~dn]
     /\ dirty = [isNil |-> dn, m |-> dm]
     /\ misses = n
     /\ p = [i \in EntryIds |->
               IF \E k \in Keys : hasE(k) /\ id(k) = i
                 THEN f[CHOOSE k \in Keys : hasE(k) /\ id(k) = i].q
                 ELSE nilP]
     /\ nEntries = Cardinality({k \in Keys : hasE(k)})
     /\ settled = [k \in Keys |-> IF f[k].q \in Vals THEN f[k].q ELSE Absent]
     /\ everStored = [k \in Keys |-> hasE(k)]
     /\ mu = NoThread
     /\ InitLocals
     /\ opsLeft = calls
     /\ MutexInit
     /\ RaceInit

\* the Map at rest in any state of that representation over the keys of CallKeys
InitRep ==
  \E dn \in BOOLEAN : \E f \in RepStates(dn) : \E n \in 0..NumKeys :
    /\ \A k \in Keys \ CallKeys : ~f[k].inRead /\ ~f[k].inDirty
    /\ AtRest(f, dn, n, MaxOpsRep)

SpecRep == InitRep /\ [][Next]_vars

\* The Map at rest after calls that stored keys and missed: every entry holds
\* a value, read is amended exactly when dirty exists, and dirty then holds the
\* keys of read and at least one new key.  Stores of the keys, and Loads that
\* miss, bring the zero Map to each of these states.
InitLive ==
  \E dn \in BOOLEAN : \E f \in RepStates(dn) : \E n \in 0..NumKeys :
    /\ \A k \in Keys : (f[k].inRead \/ f[k].inDirty) => f[k].q \in Vals
    /\ ~dn => \E k \in Keys : f[k].inDirty /\ ~f[k].inRead
    /\ AtRest(f, dn, n, MaxOpsLive)

\* calls with the keys outside CallKeys
CallWide(t) ==
  \/ \E k \in Keys \ CallKeys : Invoke(t, "Load", k, nilP)
  \/ \E k \in Keys \ CallKeys, v \in Vals : Invoke(t, "Store", k, v)
  \/ \E k \in Keys \ CallKeys : Invoke(t, "LoadAndDelete", k, nilP)
  \/ \E k \in Keys \ CallKeys : Invoke(t, "Delete", k, nilP)

NextLive == \E t \in Threads : Step(t) \/ CallWide(t)

SpecLive == InitLive /\ [][NextLive]_vars

Returned(t, o) == pc[t] = "done" /\ op[t] = o
Ended(t) == pc[t] \in {"done", "panicked"}

\* C1: a Load(k) that runs wholly after Store(k, v) returned, with no Store,
\* Delete or LoadAndDelete of k invoked since, returns (v, true), whichever
\* path it took and whatever the other threads did meanwhile.
C1_LoadAfterStore ==
  \A t \in Threads :
    (Ended(t) /\ op[t] = "Load" /\ expect[t] \in Vals)
      => (pc[t] = "done" /\ ret[t] = <<expect[t], TRUE>>)

\* two concurrent Loads of one stored key have returned, one through the lock
\* (the key was in the dirty map only), one on the fast path
C1_Witness ==
  \E t, u \in Threads :
    /\ t # u /\ Returned(t, "Load") /\ Returned(u, "Load") /\ key[t] = key[u]
    /\ expect[t] \in Vals /\ expect[u] \in Vals
    /\ usedLock[t] /\ ~usedLock[u]
    /\ ret[t] = <<expect[t], TRUE>> /\ ret[u] = ret[t]

\* C2: a Load(k) that runs wholly after Delete(k) / LoadAndDelete(k) returned,
\* with no Store of k invoked since, returns found = false.
C2_LoadAfterDelete ==
  \A t \in Threads :
    (Returned(t, "Load") /\ expect[t] = Absent) => ret[t][2] = FALSE

\* C3: LoadAndDelete(k) of a key holding v returns (v, true) and leaves k absent.
C3_LoadAndDeletePresent ==
  \A t \in Threads :
    (Ended(t) /\ op[t] = "LoadAndDelete" /\ expect[t] \in Vals /\ clean[t])
      => (pc[t] = "done" /\ ret[t] = <<expect[t], TRUE>> /\ ~Content(key[t])[2])

\* C4: LoadAndDelete(k) / Delete(k) of an absent key completes normally and
\* returns (nil, false).
C4_DeleteAbsent ==
  \A t \in Threads :
    (Ended(t) /\ op[t] \in {"LoadAndDelete", "Delete"} /\ expect[t] = Absent)
      => (pc[t] = "done" /\ ret[t] = <<nilP, FALSE>>)

\* C5: Load of a key no Store was ever invoked for returns (nil, false), and
\* the other keys still hold the values stored last.
C5_LoadNeverStored ==
  \A t \in Threads :
    (Ended(t) /\ op[t] = "Load" /\ ~everStored[key[t]])
      => /\ pc[t] = "done" /\ ret[t] = <<nilP, FALSE>>
         /\ \A k \in Keys \ {key[t]} :
              settled[k] \in Vals => Content(k) = <<settled[k], TRUE>>

\* a Load of a never stored key missed in the amended snapshot, promoted the
\* dirty map and returned, while another key holds a stored value
C5_Witness ==
  \E t \in Threads :
    /\ Returned(t, "Load") /\ ~everStored[key[t]] /\ usedLock[t]
    /\ rd[t].amended /\ ~read.amended /\ ret[t] = <<nilP, FALSE>>
    /\ \E k \in Keys \ {key[t]} : settled[k] \in Vals /\ Lookup(read.m, k)[2]

\* C6: no update is lost: whenever the writes of k were serialized and the last
\* of them was Store(k, v), the map holds v for k, whatever runs on other keys.
C6_NoLostUpdate ==
  \A k \in Keys : settled[k] \in Vals => Content(k) = <<settled[k], TRUE>>

\* a Store's swap in tryStore came between the load and the swap of the
\* rebuild's tryExpungeLocked on the same entry; the Store has returned and
\* the rebuild is about to reload the pointer
C6_Witness ==
  \E k \in Keys, u \in Threads :
    /\ settled[k] \in Vals /\ pc[u] = "te_reload" /\ rk[u] = k
    /\ lp[u] = nilP /\ p[e[u]] = settled[k]

\* C7: a Load whose snapshot has the key, or is not amended, goes straight to
\* its return without the mutex, and a Load that did not take the mutex leaves
\* read, dirty, misses, the entries and the mutex as they were.
C7_LoadFastPath ==
  [][\A t \in Threads :
       /\ (pc[t] = "load_read" /\ pc'[t] # pc[t]
            /\ ~(~Lookup(read.m, key[t])[2] /\ read.amended))
            => (pc'[t] = "load_ret" /\ ~usedLock'[t] /\ UNCHANGED <<shared, mu>>)
       /\ (op[t] = "Load" /\ ~usedLock[t] /\ ~usedLock'[t] /\ pc'[t] # pc[t])
            => UNCHANGED <<shared, mu>>]_vars

\* both fast paths have returned: a hit in the snapshot a promotion published,
\* and a miss in a snapshot that is not amended
C7_Witness ==
  \E t, u \in Threads :
    /\ Returned(t, "Load") /\ ~usedLock[t] /\ ok[t] /\ ret[t] = <<settled[key[t]], TRUE>>
    /\ Returned(u, "Load") /\ ~usedLock[u] /\ ~ok[u] /\ ~rd[u].amended

\* C8: misses <= len(dirty), except between the increment and the test of
\* missLocked, where it is at most one more.
C8_PromotionInvariant ==
  IF \E t \in Threads : pc[t] = "miss_check"
    THEN misses <= len(dirty.m) + 1
    ELSE misses <= len(dirty.m)

\* LoadAndDelete removed a key from the dirty map and its miss made the counter
\* exceed the map's size by one
C8_Witness ==
  \E t \in Threads :
    /\ pc[t] = "miss_check" /\ op[t] \in {"LoadAndDelete", "Delete"} /\ ok[t]
    /\ len(dirty.m) > 0 /\ misses = len(dirty.m) + 1

\* the keys the range loop of dirtyLocked is done with
Visited(t) ==
  KeysOf(rd[t].m) \ (todo[t] \cup (IF pc[t] \in {"te_cas", "te_reload"} THEN {rk[t]} ELSE {}))

C9_Copied ==
  \A t \in Threads :
    pc[t] \in {"dirty_range", "te_cas", "te_reload", "store_publish"} =>
      /\ KeysOf(dirty.m) \subseteq Visited(t)
      /\ \A k \in Visited(t) :
           IF p[rd[t].m[k]] = expunged THEN dirty.m[k] = NoEntry
           ELSE dirty.m[k] = rd[t].m[k]

C9_Expunges ==
  \A t \in Threads :
    (pc[t] = "te_cas" /\ p[e[t]] = nilP /\ pc'[t] # pc[t]) =>
      (p'[e[t]] = expunged /\ dirty'.m[rk[t]] = NoEntry /\ pc'[t] = "dirty_range")

\* C9: while dirtyLocked rebuilds the dirty map, the keys it has copied are
\* exactly the visited keys whose entry is not expunged, each with the entry
\* of the snapshot, and an entry still nil when its swap runs becomes expunged
\* and is not copied.
C9_RebuildDropsDeleted == []C9_Copied /\ [][C9_Expunges]_vars

\* a rebuild has finished that expunged a nil entry of the snapshot and left
\* its key out of the new dirty map
C9_Witness ==
  \E t \in Threads :
    /\ pc[t] = "store_publish" /\ todo[t] = {}
    /\ \E k \in KeysOf(rd[t].m) : p[rd[t].m[k]] = expunged /\ dirty.m[k] = NoEntry

C10_Stored ==
  \A t \in Threads :
    /\ (op[t] = "Store" /\ pc[t] = "unlock") =>
         /\ Content(key[t])[2]
         /\ ~dirty.isNil =>
              /\ Lookup(dirty.m, key[t])[2]
              /\ Lookup(read.m, key[t])[2] => dirty.m[key[t]] = read.m[key[t]]
    /\ (op[t] = "Store" /\ pc[t] \in {"unlock", "done"} /\ clean[t]) =>
         Content(key[t]) = <<value[t], TRUE>>

C10_Unexpunges ==
  \A t \in Threads :
    (pc[t] = "store_unexpunge" /\ p[e[t]] = expunged /\ pc'[t] # pc[t]) =>
      (p'[e[t]] = nilP /\ dirty'.m[key[t]] = e[t] /\ pc'[t] = "store_set")

\* C10: a Store makes its key hold the value, also when the key's entry in the
\* read snapshot is expunged: Store then makes the entry nil again and puts
\* that entry into the dirty map under the key, so the next promotion keeps it.
C10_StoreAfterDelete == []C10_Stored /\ [][C10_Unexpunges]_vars

\* a Store found its key's entry expunged, has returned, and a promotion since
\* has published the dirty map with the key and the value in it
C10_Witness ==
  \E t \in Threads :
    /\ Returned(t, "Store") /\ lp[t] = expunged /\ usedLock[t] /\ clean[t]
    /\ dirty.isNil /\ ~read.amended /\ read.m[key[t]] = e[t]
    /\ Content(key[t]) = <<value[t], TRUE>>

\* the keys of the dirty map that the published snapshot does not have
DirtyOnly == {k \in Keys : Lookup(dirty.m, k)[2] /\ ~Lookup(read.m, k)[2]}

Live(q) == q # nilP /\ q # expunged
Holds(t, at) == mu = t /\ pc[t] = at
Moves(t) == pc'[t] # pc[t]

\* the change of one allocated entry's pointer in a step
C12_Change(i) ==
  \/ p'[i] = p[i]
  \/ p[i] = nilP /\ Live(p'[i])
  \/ Live(p[i]) /\ Live(p'[i])
  \/ Live(p[i]) /\ p'[i] = nilP
  \/ p[i] = nilP /\ p'[i] = expunged
       /\ \E t \in Threads : Holds(t, "te_cas") /\ op[t] = "Store" /\ e[t] = i
  \/ p[i] = expunged /\ p'[i] = nilP
       /\ \E t \in Threads : Holds(t, "store_unexpunge") /\ op[t] = "Store" /\ e[t] = i

C12_Steps ==
  /\ \A i \in 1..nEntries : C12_Change(i)
  /\ \A t \in Threads :
       (pc[t] = "ts_load" /\ p[e[t]] = expunged /\ Moves(t))
         => (pc'[t] = "store_lock" /\ p' = p)
  /\ entryDelete(expunged) = <<expunged, <<nilP, FALSE>>>>

C12_StoreLockedNotExpunged ==
  \A t \in Threads : pc[t] = "store_set" => p[e[t]] # expunged

\* C12: an entry's pointer changes only nil -> value, value -> value,
\* value -> nil, nil -> expunged (the swap of tryExpungeLocked, by the holder of
\* the lock) and expunged -> nil (unexpungeLocked in Store, by the holder of the
\* lock); tryStore gives up on an expunged entry, delete finds nothing in it,
\* and storeLocked never meets one.
C12_EntryTransitions == []C12_StoreLockedNotExpunged /\ [][C12_Steps]_vars

\* Store, whose tryStore met an expunged entry, has made it nil again under
\* the lock and is about to store into it
C12_Witness ==
  \E t \in Threads :
    /\ Holds(t, "store_set") /\ lp[t] = expunged /\ p[e[t]] = nilP
    /\ dirty.m[key[t]] = e[t] /\ read.m[key[t]] = e[t]

FellBack(t) == ~Lookup(read.m, key[t])[2] /\ read.amended

C13_Steps ==
  \A t \in Threads :
    /\ (pc[t] \in {"load_locked", "lad_locked"} /\ Moves(t))
         => /\ misses' = misses
            /\ pc'[t] = IF FellBack(t) THEN "miss_inc" ELSE "unlock"
    /\ (pc[t] = "miss_inc" /\ Moves(t))
         => (misses' = misses + 1 /\ UNCHANGED <<read, dirty, p>> /\ pc'[t] = "miss_check")
    /\ (pc[t] = "miss_check" /\ Moves(t))
         => /\ IF misses < len(dirty.m)
                 THEN UNCHANGED <<read, dirty, misses>>
                 ELSE /\ read' = [m |-> dirty.m, amended |-> FALSE]
                      /\ dirty'.isNil /\ KeysOf(dirty'.m) = {}
                      /\ misses' = 0
            /\ p' = p
            /\ \A k \in Keys : Content(k)' = Content(k)
    /\ (misses' # misses) => \E u \in Threads : pc[u] \in {"miss_inc", "miss_check"} /\ mu = u

\* C13: each look-up that falls back to the dirty map under the lock adds one
\* to misses; missLocked then changes nothing more while misses < len(dirty),
\* and otherwise publishes the dirty map as the snapshot, not amended, sets
\* dirty to nil and misses to 0, leaving what Load finds for every key.
C13_MissLocked == [][C13_Steps]_vars

\* a Load that missed has just promoted a dirty map holding a key
C13_Witness ==
  \E t \in Threads :
    /\ Holds(t, "unlock") /\ op[t] = "Load" /\ rd[t].amended
    /\ ~read.amended /\ dirty.isNil /\ misses = 0 /\ KeysOf(read.m) # KeysOf(rd[t].m)

IsLad(t) == op[t] \in {"LoadAndDelete", "Delete"}

C14_Removed ==
  \A t \in Threads :
    (IsLad(t) /\ pc[t] \in {"miss_inc", "miss_check"})
      => (~Lookup(dirty.m, key[t])[2] /\ ~Lookup(read.m, key[t])[2])

C14_Steps ==
  \A t \in Threads :
    /\ (pc[t] = "lad_locked" /\ Moves(t) /\ FellBack(t))
         => (~Lookup(dirty'.m, key[t])[2] /\ pc'[t] = "miss_inc" /\ misses' = misses)
    /\ (IsLad(t) /\ pc[t] = "miss_inc" /\ Moves(t)) => misses' = misses + 1
    /\ (IsLad(t) /\ pc[t] = "miss_check" /\ Moves(t))
         => (misses' \in {misses, 0} /\ ~Lookup(read'.m, key[t])[2])

\* C14: LoadAndDelete on the locked path deletes its key from the dirty map,
\* found there or not, and counts one miss, so the snapshot a promotion then
\* publishes does not have the key.
C14_LoadAndDeleteLocked == []C14_Removed /\ [][C14_Steps]_vars

\* LoadAndDelete found its key in the dirty map, removed it, and its miss
\* promoted a snapshot without the key
C14_Witness ==
  \E t \in Threads :
    /\ Holds(t, "unlock") /\ IsLad(t) /\ ok[t] /\ everStored[key[t]]
    /\ ~read.amended /\ dirty.isNil /\ ~Lookup(read.m, key[t])[2]

LockedPcs ==
  {"load_locked", "lad_locked", "miss_inc", "miss_check", "unlock",
   "store_locked", "store_unexpunge", "store_set", "dirty_locked", "dirty_range",
   "te_cas", "te_reload", "store_publish", "store_new"}

C15_Holder == \A t \in Threads : pc[t] \in LockedPcs <=> mu = t

C15_Steps ==
  /\ (dirty' # dirty \/ misses' # misses)
       => \E t \in Threads : mu = t /\ mu' = t /\ pc[t] \in LockedPcs
  /\ \A t \in Threads : (pc[t] \in LockedPcs /\ (Moves(t) \/ todo'[t] # todo[t])) => mu = t

\* C15: a thread is in a section of code that reads or writes dirty or misses
\* exactly while it holds mu, so at most one thread is in such a section, and
\* dirty and misses change only in steps of the holder.
C15_LockDiscipline == []C15_Holder /\ [][C15_Steps]_vars

\* one thread is in missLocked holding the lock while the other waits for it
C15_Witness ==
  \E t, u \in Threads :
    /\ Holds(t, "miss_check") /\ misses > 0
    /\ pc[u] \in {"load_lock", "store_lock", "lad_lock"}

C17_AmendedIffDirty == mu = NoThread => (read.amended <=> ~dirty.isNil)

C17_StoreNeverPanics == \A t \in Threads : pc[t] = "panicked" => op[t] # "Store"

C17_AssignsNonNil ==
  \A t \in Threads :
    /\ pc[t] = "store_new" => ~dirty.isNil
    /\ (pc[t] = "store_unexpunge" /\ p[e[t]] = expunged) => ~dirty.isNil

\* C17: while mu is free the snapshot is amended exactly when dirty is not
\* nil, and Store assigns to dirty (line 72, line 84) only when it is not nil.
C17_AmendedMatchesDirty ==
  C17_AmendedIffDirty /\ C17_StoreNeverPanics /\ C17_AssignsNonNil

\* Store has rebuilt the dirty map from a snapshot that was not amended,
\* published amended = true and is about to assign the new key
C17_Witness ==
  \E t \in Threads :
    /\ Holds(t, "store_new") /\ ~rd[t].amended /\ read.amended
    /\ ~dirty.isNil /\ KeysOf(dirty.m) # {} /\ ~Lookup(dirty.m, key[t])[2]

C18_DirtyNotExpunged == \A k \in KeysOf(dirty.m) : p[dirty.m[k]] # expunged

C18_ReadAgainstDirty ==
  \A k \in KeysOf(read.m) :
    IF dirty.isNil THEN p[read.m[k]] # expunged
    ELSE IF p[read.m[k]] # expunged THEN dirty.m[k] = read.m[k]
    ELSE dirty.m[k] = NoEntry

C18_AtRest == mu = NoThread => (C18_DirtyNotExpunged /\ C18_ReadAgainstDirty)

C18_Promotion ==
  \A t \in Threads :
    (pc[t] = "miss_check" /\ Moves(t))
      => \A k \in KeysOf(read.m) : Live(p[read.m[k]]) => read'.m[k] = read.m[k]

\* C18: while mu is free no entry of dirty is expunged; with dirty nil no
\* entry of read.m is expunged; with dirty not nil a key of read.m is in dirty,
\* with the same entry, exactly when its entry is not expunged; so a promotion
\* keeps every key of read.m whose entry holds a value.
C18_Representation == []C18_AtRest /\ [][C18_Promotion]_vars

\* a Store of a new key has rebuilt dirty, leaving out a deleted key of the
\* snapshot whose entry it expunged, and has returned
C18_Witness ==
  \E t \in Threads : \E k \in KeysOf(read.m) :
    /\ Returned(t, "Store") /\ usedLock[t] /\ mu = NoThread
    /\ ~dirty.isNil /\ p[read.m[k]] = expunged /\ ~Lookup(dirty.m, k)[2]
    /\ Lookup(dirty.m, key[t])[2] /\ ~Lookup(read.m, key[t])[2]

\* the steps of a call in progress: everything but the caller's next call
Run(t) ==
  \/ Return(t)
  \/ LoadRead(t)
  \/ Lock(t)
  \/ LoadLocked(t)
  \/ MissInc(t)
  \/ MissCheck(t)
  \/ Unlock(t)
  \/ LoadRet(t)
  \/ StoreRead(t)
  \/ TryStoreLoad(t)
  \/ TryStoreCas(t)
  \/ StoreLocked(t)
  \/ StoreUnexpunge(t)
  \/ StoreSet(t)
  \/ DirtyLocked(t)
  \/ DirtyRange(t)
  \/ StorePublish(t)
  \/ StoreNew(t)
  \/ LadRead(t)
  \/ LadLocked(t)
  \/ LadRet(t)

\* A runnable goroutine is eventually scheduled, and a goroutine waiting in
\* mu.Lock() eventually gets the lock if it is free again and again.
Fairness == \A t \in Threads : WF_vars(Run(t)) /\ SF_vars(Lock(t))

SpecFair == Init /\ [][Next]_vars /\ Fairness

C16_NoPanic == \A t \in Threads : pc[t] # "panicked"

C16_LockReleased == (\A t \in Threads : pc[t] \in {"idle", "done", "panicked"}) => mu = NoThread

C16_Retry ==
  \A t \in Threads :
    /\ (pc[t] = "ts_cas" /\ pc'[t] = "ts_load") => p[e[t]] # lp[t]
    /\ (pc[t] = "te_cas" /\ pc'[t] = "te_reload") => p[e[t]] # lp[t]

\* C16: with fair scheduling and finitely many calls per thread every call
\* of Load, Store, Delete and LoadAndDelete returns, the lock is free once
\* every call has ended, and a compare-and-swap loop goes round again only when
\* the entry no longer holds the pointer the loop last read.
C16_EveryCallReturns ==
  /\ []C16_NoPanic
  /\ []C16_LockReleased
  /\ [][C16_Retry]_vars
  /\ \A t \in Threads : (pc[t] # "idle") ~> (pc[t] = "done")

\* the same with a panic counted as the end of a call
C16_EveryCallEnds ==
  /\ []C16_LockReleased
  /\ [][C16_Retry]_vars
  /\ \A t \in Threads : (pc[t] # "idle") ~> (pc[t] \in {"done", "panicked"})

(***************************************************************************)
(* The Mutex of 2008 (package mutex1, map.go lines 205-244).  cas is the   *)
(* atomic compare-and-swap and semacquire / semrelease the counting        *)
(* semaphore of the runtime; the file declares them with empty bodies.     *)
(***************************************************************************)

\* cas(val, old, new) on a word holding cur: the word left and the result
cas(cur, old, new) == IF cur = old THEN <<new, TRUE>> ELSE <<cur, FALSE>>

\* a goroutine calls m.Lock()
CallLock(t) ==
  /\ mpc[t] = "out"
  /\ locksLeft[t] > 0
  /\ locksLeft' = Set(locksLeft, t, locksLeft[t] - 1)
  /\ mpc' = Set(mpc, t, "lock_load")
  /\ UNCHANGED <<mkey, sema, mv, mapvars, cvars>>

\* xadd: v := *val   (line 223)
XaddLoad(t) ==
  /\ mpc[t] \in {"lock_load", "unlock_load"}
  /\ mv' = Set(mv, t, mkey)
  /\ mpc' = Set(mpc, t, IF mpc[t] = "lock_load" THEN "lock_cas" ELSE "unlock_cas")
  /\ UNCHANGED <<mkey, sema, locksLeft, mapvars, cvars>>

\* mutant of LockAcquired: a waiter's increment also counts as acquiring
LockAcquiredAlways(k) == k >= 1

\* Lock: the test of xadd's result   (line 233)
LockAcquired(k) == k = 1

\* Lock: cas(val, v, v+1) in xadd, then the test of line 233   (lines 224-226, 233-236)
LockXadd(t) ==
  /\ mpc[t] = "lock_cas"
  /\ mkey' = cas(mkey, mv[t], mv[t] + 1)[1]
  /\ mpc' = Set(mpc, t, IF ~cas(mkey, mv[t], mv[t] + 1)[2] THEN "lock_load"
                        ELSE IF LockAcquired(mv[t] + 1) THEN "in"
                        ELSE "semacquire")
  /\ UNCHANGED <<sema, mv, locksLeft, mapvars, cvars>>

\* semacquire(&m.sema): wait until the count is positive, take one
Semacquire(t) ==
  /\ mpc[t] = "semacquire"
  /\ sema > 0
  /\ sema' = sema - 1
  /\ mpc' = Set(mpc, t, "in")
  /\ UNCHANGED <<mkey, mv, locksLeft, mapvars, cvars>>

\* the goroutine that returned from Lock calls m.Unlock()
CallUnlock(t) ==
  /\ mpc[t] = "in"
  /\ mpc' = Set(mpc, t, "unlock_load")
  /\ UNCHANGED <<mkey, sema, mv, locksLeft, mapvars, cvars>>

\* Unlock: the test of xadd's result   (line 240)
UnlockQuiet(k) == k = 0

\* Unlock: cas(val, v, v-1) in xadd, then the test of line 240   (lines 224-226, 240-243)
UnlockXadd(t) ==
  /\ mpc[t] = "unlock_cas"
  /\ mkey' = cas(mkey, mv[t], mv[t] - 1)[1]
  /\ mpc' = Set(mpc, t, IF ~cas(mkey, mv[t], mv[t] - 1)[2] THEN "unlock_load"
                        ELSE IF UnlockQuiet(mv[t] - 1) THEN "out"
                        ELSE "semrelease")
  /\ UNCHANGED <<sema, mv, locksLeft, mapvars, cvars>>

\* semrelease(&m.sema): add one to the count
Semrelease(t) ==
  /\ mpc[t] = "semrelease"
  /\ sema' = sema + 1
  /\ mpc' = Set(mpc, t, "out")
  /\ UNCHANGED <<mkey, mv, locksLeft, mapvars, cvars>>

MutexRun(t) ==
  \/ XaddLoad(t)
  \/ LockXadd(t)
  \/ Semacquire(t)
  \/ CallUnlock(t)
  \/ UnlockXadd(t)
  \/ Semrelease(t)

NextMutex == \E t \in Lockers : CallLock(t) \/ MutexRun(t)

\* A runnable goroutine is eventually scheduled; a goroutine in semacquire
\* eventually gets a count if counts keep being released.
FairMutex == \A t \in Lockers : WF_vars(MutexRun(t)) /\ SF_vars(Semacquire(t))

SpecMutex == Init /\ [][NextMutex]_vars /\ FairMutex

Holding(t) == mpc[t] \in {"in", "unlock_load", "unlock_cas"}

C19_Exclusion == \A t, u \in Lockers : (Holding(t) /\ Holding(u)) => t = u

C19_Steps ==
  \A t \in Lockers :
    /\ (mpc[t] = "lock_cas" /\ mpc'[t] # "lock_cas")
         => /\ mpc'[t] = "in" <=> (mkey' = mkey + 1 /\ mkey' = 1)
            /\ mpc'[t] = "semacquire" <=> (mkey' = mkey + 1 /\ mkey' # 1)
            /\ mpc'[t] = "lock_load" <=> mkey' = mkey
            /\ sema' = sema
    /\ (mpc[t] = "unlock_cas" /\ mpc'[t] # "unlock_cas")
         => /\ mpc'[t] = "semrelease" <=> (mkey' = mkey - 1 /\ mkey' # 0)
            /\ mpc'[t] = "out" <=> (mkey' = mkey - 1 /\ mkey' = 0)
            /\ mpc'[t] = "unlock_load" <=> mkey' = mkey
            /\ sema' = sema
    /\ (mpc[t] = "semrelease" /\ mpc'[t] # "semrelease") => sema' = sema + 1
    /\ (sema' # sema) => \E u \in Lockers : mpc[u] \in {"semrelease", "semacquire"}

ALock(i) ==
  /\ apc[i] = "a_lock"
  /\ cl = NoThread
  /\ cl' = i
  /\ apc' = Set(apc, i, "a_inc")
  /\ UNCHANGED <<ready, rpc, nwait, nnotify, ticket, mapvars, mvars>>

\* athlete: ready++   (line 32)
AInc(i) ==
  /\ apc[i] = "a_inc"
  /\ ready' = ready + 1
  /\ apc' = Set(apc, i, "a_unlock")
  /\ UNCHANGED <<cl, rpc, nwait, nnotify, ticket, mapvars, mvars>>

\* athlete: c.L.Unlock()   (line 33)
AUnlock(i) ==
  /\ apc[i] = "a_unlock"
  /\ cl' = NoThread
  /\ apc' = Set(apc, i, "a_bcast")
  /\ UNCHANGED <<ready, rpc, nwait, nnotify, ticket, mapvars, mvars>>

\* mutant of ABroadcast: nobody is woken
ABroadcastNobody(i) ==
  /\ apc[i] = "a_bcast"
  /\ apc' = Set(apc, i, "a_done")
  /\ UNCHANGED <<ready, cl, rpc, nwait, nnotify, ticket, mapvars, mvars>>

\* athlete: c.Broadcast(): every ticket handed out so far is notified   (line 37)
ABroadcast(i) ==
  /\ apc[i] = "a_bcast"
  /\ nnotify' = nwait
  /\ apc' = Set(apc, i, "a_done")
  /\ UNCHANGED <<ready, cl, rpc, nwait, ticket, mapvars, mvars>>

\* referee: c.L.Lock() of line 41, and the one that ends c.Wait()
RLock ==
  /\ rpc \in {"r_lock", "r_relock"}
  /\ cl = NoThread
  /\ cl' = Referee
  /\ rpc' = "r_check"
  /\ UNCHANGED <<ready, apc, nwait, nnotify, ticket, mapvars, mvars>>

\* the loop test of line 43
KeepWaiting(r) == r # NumAthletes

\* referee: the loop test, then the first step of c.Wait(): take a ticket   (lines 43, 44)
RCheck ==
  /\ rpc = "r_check"
  /\ IF KeepWaiting(ready)
       THEN /\ ticket' = nwait
            /\ nwait' = nwait + 1
            /\ rpc' = "r_wait_unlock"
       ELSE /\ rpc' = "r_unlock"
            /\ UNCHANGED <<ticket, nwait>>
  /\ UNCHANGED <<ready, cl, apc, nnotify, mapvars, mvars>>

\* referee in c.Wait(): c.L.Unlock()
RWaitUnlock ==
  /\ rpc = "r_wait_unlock"
  /\ cl' = NoThread
  /\ rpc' = "r_wait_block"
  /\ UNCHANGED <<ready, apc, nwait, nnotify, ticket, mapvars, mvars>>

\* referee in c.Wait(): blocked until its ticket is notified; line 45 logs
RWaitBlock ==
  /\ rpc = "r_wait_block"
  /\ ticket < nnotify
  /\ rpc' = "r_relock"
  /\ UNCHANGED <<ready, cl, apc, nwait, nnotify, ticket, mapvars, mvars>>

\* referee: c.L.Unlock()   (line 47)
RUnlock ==
  /\ rpc = "r_unlock"
  /\ cl' = NoThread
  /\ rpc' = "r_announce"
  /\ UNCHANGED <<ready, apc, nwait, nnotify, ticket, mapvars, mvars>>

\* referee: the announcement of line 50
RAnnounce ==
  /\ rpc = "r_announce"
  /\ rpc' = "r_done"
  /\ UNCHANGED <<ready, cl, apc, nwait, nnotify, ticket, mapvars, mvars>>

AStep(i) == ALock(i) \/ AInc(i) \/ AUnlock(i) \/ ABroadcast(i)

RStep == RLock \/ RCheck \/ RWaitUnlock \/ RWaitBlock \/ RUnlock \/ RAnnounce

NextRace == RStep \/ \E i \in Athletes : AStep(i)

\* A runnable goroutine is eventually scheduled (time.Sleep ends), and a
\* goroutine waiting in c.L.Lock() eventually gets the lock.
FairRace ==
  /\ WF_vars(RStep) /\ SF_vars(RLock)
  /\ \A i \in Athletes : WF_vars(AStep(i)) /\ SF_vars(ALock(i))

SpecRace == Init /\ [][NextRace]_vars /\ FairRace

C20_OnlyWhenReady ==
  rpc \in {"r_unlock", "r_announce", "r_done"} => ready = NumAthletes

C20_RegisteredBeforeUnlock ==
  /\ rpc = "r_wait_unlock" => (cl = Referee /\ ticket < nwait)
  /\ rpc \in {"r_check", "r_wait_unlock", "r_unlock"} <=> cl = Referee

C20_NoLostWakeup ==
  (rpc = "r_wait_block" /\ ticket >= nnotify) => \E i \in Athletes : apc[i] # "a_done"

\* C20: the referee leaves its loop and announces only with ready equal to
\* the number of athletes, and under fair scheduling it does announce: it
\* tests ready holding c.L, Wait gives up c.L only after taking its ticket, so
\* a waiting referee that has not been notified still has a Broadcast to come.
C20_Rendezvous ==
  /\ []C20_OnlyWhenReady
  /\ []C20_RegisteredBeforeUnlock
  /\ []C20_NoLostWakeup
  /\ <>(rpc = "r_done")

\* the referee waited, was woken by a Broadcast with an athlete still
\* missing, waited again, and has announced after the last one
C20_Witness ==
  /\ rpc = "r_done" /\ ready = NumAthletes /\ nwait >= 2 /\ ticket = nwait - 1
  /\ nnotify = nwait

====
